---- MODULE Spec2Model ----
(***************************************************************************)
(* Model of mongo_ros.cpp: resolution of the connection settings against   *)
(* the ROS parameter server (getParam, getHost, getPort, getName, getUser, *)
(* getAuthenticate, getPwd), the connect/retry loop of makeDbConnection    *)
(* and the two dropDatabase overloads.                                     *)
(*                                                                         *)
(* The mongo driver (DBClientConnection) and the parameter server are      *)
(* external: connect either throws ConnectException or returns, auth       *)
(* returns true or false, and isFailed() may be true or false after either *)
(* call.  Time is an integer wall clock; one tick is the unit of the       *)
(* retry sleep (ros::Duration(1.0)).                                       *)
(***************************************************************************)
EXTENDS Integers, Sequences, FiniteSets, TLC

\* ---- bounds of the model ------------------------------------------------
MaxTimeout == 3      \* explicit timeouts range over 0..MaxTimeout
MaxDur == 2          \* a connect call lasts 0..MaxDur ticks
MaxLatency == 1      \* an auth call / the step to the post-loop check lasts 0..MaxLatency
MaxAttempts == 3     \* connection objects created in one call

\* ---- program constants ---------------------------------------------------
DefaultHost == "localhost"
DefaultPort == 27017
DefaultTimeout == 60
SleepUnit == 1

\* ---- the parameter server ------------------------------------------------
\* A store maps each key to <<>> (not set) or <<v>> (set to v).
Opt(S) == {<<>>} \cup {<<v>> : v \in S}

AllStores ==
  [warehouse_host          : Opt({"cfghost"}),
   warehouse_port          : Opt({6000}),
   warehouse_database_name : Opt({"cfgdb"}),
   warehouse_user          : Opt({"cfguser"}),
   warehouse_authenticate  : Opt(BOOLEAN),
   warehouse_pwd           : Opt({"cfgpwd"})]

\* The stores of the retry-loop specification: nothing but warehouse_authenticate
\* configured, or everything configured.
Stores ==
  {s \in AllStores :
     \/ /\ s.warehouse_host = <<>> /\ s.warehouse_port = <<>>
        /\ s.warehouse_database_name = <<>> /\ s.warehouse_user = <<>>
        /\ s.warehouse_pwd = <<>>
     \/ /\ s.warehouse_host # <<>> /\ s.warehouse_port # <<>>
        /\ s.warehouse_database_name # <<>> /\ s.warehouse_user # <<>>
        /\ s.warehouse_pwd # <<>>}

\* nh.param(name, val, default_val): the stored value, else the default.
getParam(s, name, default_val) ==
  IF s[name] = <<>> THEN default_val ELSE s[name][1]

getHost(s, host) ==
  IF host = "" THEN getParam(s, "warehouse_host", DefaultHost) ELSE host

getPortConfigFirst(s, port) ==
  IF s["warehouse_port"] # <<>> THEN s["warehouse_port"][1]
  ELSE IF port = 0 THEN DefaultPort ELSE port

getPort(s, port) ==
  IF port = 0 THEN getParam(s, "warehouse_port", DefaultPort) ELSE port

getName(s, name) ==
  IF "" = name THEN getParam(s, "warehouse_database_name", "") ELSE name

getUser(s, user) ==
  IF "" = user THEN getParam(s, "warehouse_user", "") ELSE user

\* The default handed to getParam<bool> is the string literal "": a non-null
\* const char*, which converts to the bool true.
EmptyLiteralAsBool == TRUE

getAuthenticate(s, authenticate) ==
  IF FALSE = authenticate
    THEN getParam(s, "warehouse_authenticate", EmptyLiteralAsBool)
    ELSE authenticate

getPwd(s, pwd) ==
  IF "" = pwd THEN getParam(s, "warehouse_pwd", "") ELSE pwd

\* ---- inputs ----------------------------------------------------------------
\* Ports are values of getPort's int parameter; makeDbConnection's unsigned port
\* reaches it unchanged for every value below 2^31, which covers every TCP port.
Timeouts == 0 .. MaxTimeout

AllArgs ==
  [host : {"", "dbhost"}, port : {0, 5000, 65535},
   timeout : Timeouts, name : {"", "db"}, authenticate : BOOLEAN,
   user : {"", "u"}, pwd : {"", "p"}]

\* The callers of the retry-loop specification: address given or not,
\* credentials given or not.
Args ==
  {a \in AllArgs :
     /\ a.port # 65535
     /\ (a.host = "") <=> (a.port = 0)
     /\ (a.name = "") <=> (a.user = "")
     /\ (a.user = "") <=> (a.pwd = "")}

NoArgs ==
  [host |-> "", port |-> 0, timeout |-> 0, name |-> "", authenticate |-> FALSE,
   user |-> "", pwd |-> ""]

NoSettings ==
  [host |-> "", port |-> 0, name |-> "", authenticate |-> FALSE,
   user |-> "", pwd |-> ""]

VARIABLES
  store,        \* the parameter server
  running,      \* ros::ok()
  entry,        \* "none", "make", "drop1", "drop4": the function the caller called
  dropName,     \* dropDatabase's db argument
  args,         \* the arguments makeDbConnection received
  db,           \* db_host, db_port, db_name, db_authenticate, db_user, db_pwd
  pc,           \* position in makeDbConnection / dropDatabase
  conn,         \* 0: conn is null; n: the n-th DBClientConnection created
  connState,    \* "none", "new", "returned", "threw": connect on the current object
  failed,       \* conn->isFailed() of the current object
  now,          \* ros::WallTime::now()
  end,          \* the deadline
  attemptStart, \* the clock when the current object's connect started
  sleeps,       \* ros::Duration(1.0).sleep() calls
  throws,       \* ConnectExceptions thrown by connect
  authCalls,    \* auth calls on the current object
  authOk,       \* "none", "ok", "fail": what auth returned on the current object
  connectAddr,  \* the address the last connect call was given
  first,        \* "none", "ok", "bad": the first connect call returned and left it non-failed
  stoppedByFlag,\* the loop condition was evaluated with ros::ok() false
  result,       \* "none", "returned", "DbConnectException", or a null-dereference fault
  handle,       \* 0, or the connection object makeDbConnection returned
  drops         \* <<connection, name>> of each drop-database command issued

vars ==
  <<store, running, entry, dropName, args, db, pc, conn, connState, failed, now,
    end, attemptStart, sleeps, throws, authCalls, authOk, connectAddr, first,
    stoppedByFlag, result, handle, drops>>

envVars == <<store, running>>
callVars == <<entry, dropName, args>>
loopVars ==
  <<conn, connState, failed, attemptStart, sleeps, throws, authCalls, authOk,
    connectAddr, first, stoppedByFlag>>
outVars == <<result, handle, drops>>

\* ---- initial states ---------------------------------------------------------
InitCall ==
  /\ running = TRUE
  /\ dropName = "" /\ db = NoSettings
  /\ conn = 0 /\ connState = "none" /\ failed = FALSE
  /\ now = 0 /\ end = 0 /\ attemptStart = 0
  /\ sleeps = 0 /\ throws = 0 /\ authCalls = 0 /\ authOk = "none"
  /\ connectAddr = <<>> /\ first = "none" /\ stoppedByFlag = FALSE
  /\ result = "none" /\ handle = 0 /\ drops = <<>>

Init ==
  /\ store \in Stores
  /\ pc = "idle"
  /\ entry = "none" /\ args = NoArgs
  /\ InitCall

\* ---- the callers ---------------------------------------------------------------
CallMakeDbConnection ==
  /\ pc = "idle"
  /\ \E a \in Args : args' = a
  /\ entry' = "make"
  /\ pc' = "resolve"
  /\ UNCHANGED <<envVars, dropName, db, loopVars, now, end, outVars>>

\* dropDatabase(db, host, port, timeout): makeDbConnection(nh, host, port, timeout),
\* the remaining parameters at their declared defaults.
dropDatabase(e, name, host, port, timeout) ==
  /\ pc = "idle"
  /\ entry' = e
  /\ dropName' = name
  /\ args' = [host |-> host, port |-> port, timeout |-> timeout, name |-> "",
              authenticate |-> FALSE, user |-> "", pwd |-> ""]
  /\ pc' = "resolve"
  /\ UNCHANGED <<envVars, db, loopVars, now, end, outVars>>

CallDropDatabase1 ==
  \E name \in {"db"} : dropDatabase("drop1", name, "", 0, DefaultTimeout)

CallDropDatabase4 ==
  \E name \in {"db"}, a \in {<<"", 0>>, <<"dbhost", 5000>>}, t \in Timeouts :
    dropDatabase("drop4", name, a[1], a[2], t)

\* ---- makeDbConnection ------------------------------------------------------------
Resolve ==
  /\ pc = "resolve"
  /\ db' = [host         |-> getHost(store, args.host),
            port         |-> getPort(store, args.port),
            authenticate |-> getAuthenticate(store, args.authenticate),
            name         |-> getName(store, args.name),
            user         |-> getUser(store, args.user),
            pwd          |-> getPwd(store, args.pwd)]
  /\ end' = now + args.timeout
  /\ pc' = "loop"
  /\ UNCHANGED <<envVars, callVars, loopVars, now, outVars>>

\* ros::ok() && ros::WallTime::now() < end
LoopCond(ok, t, e) == ok /\ t < e

\* The loop condition; when it holds, conn.reset(new mongo::DBClientConnection()).
LoopCheck ==
  /\ pc = "loop"
  /\ IF LoopCond(running, now, end)
       THEN /\ conn < MaxAttempts
            /\ conn' = conn + 1
            /\ connState' = "new"
            /\ failed' = FALSE
            /\ authCalls' = 0
            /\ authOk' = "none"
            /\ attemptStart' = now
            /\ pc' = "connect"
            /\ UNCHANGED stoppedByFlag
       ELSE /\ pc' = "post"
            /\ stoppedByFlag' = (stoppedByFlag \/ ~running)
            /\ UNCHANGED <<conn, connState, failed, authCalls, authOk, attemptStart>>
  /\ UNCHANGED <<envVars, callVars, db, now, end, sleeps, throws, connectAddr,
                 first, outVars>>

\* if (db_authenticate) conn->auth(...)
AfterConnectAlwaysAuth(authenticate) == "auth"

AfterConnect(authenticate) == IF authenticate THEN "auth" ELSE "isfailed"

\* The handler of mongo::ConnectException.
AfterCatchNoSleep == "loop"

AfterCatch == "sleep"

\* conn->connect(db_address): lasts d ticks, throws ConnectException or returns,
\* and leaves the object failed or not.
Connect ==
  /\ pc = "connect"
  /\ \E d \in 0 .. MaxDur, threw \in BOOLEAN, f \in BOOLEAN :
       /\ now' = now + d
       /\ failed' = f
       /\ connectAddr' = <<db.host, db.port>>
       /\ first' = IF conn # 1 THEN first
                   ELSE IF ~threw /\ ~f THEN "ok" ELSE "bad"
       /\ IF threw
            THEN /\ connState' = "threw"
                 /\ throws' = throws + 1
                 /\ pc' = AfterCatch
            ELSE /\ connState' = "returned"
                 /\ throws' = throws
                 /\ pc' = AfterConnect(db.authenticate)
  /\ UNCHANGED <<envVars, callVars, db, conn, end, attemptStart, sleeps, authCalls,
                 authOk, stoppedByFlag, outVars>>

\* conn->auth(db_name, db_user, db_pwd, err): a false return is logged only.
Auth ==
  /\ pc = "auth"
  /\ \E d \in 0 .. MaxLatency, ok \in BOOLEAN, f \in BOOLEAN :
       /\ now' = now + d
       /\ failed' = f
       /\ authOk' = IF ok THEN "ok" ELSE "fail"
  /\ authCalls' = authCalls + 1
  /\ pc' = "isfailed"
  /\ UNCHANGED <<envVars, callVars, db, conn, connState, end, attemptStart, sleeps,
                 throws, connectAddr, first, stoppedByFlag, outVars>>

\* if (!conn->isFailed()) break;
BreakNever(f) == FALSE

BreakCond(f) == ~f

CheckFailed ==
  /\ pc = "isfailed"
  /\ pc' = IF BreakCond(failed) THEN "post" ELSE "loop"
  /\ UNCHANGED <<envVars, callVars, db, loopVars, now, end, outVars>>

\* ros::Duration(1.0).sleep()
Sleep ==
  /\ pc = "sleep"
  /\ now' = now + SleepUnit
  /\ sleeps' = sleeps + 1
  /\ pc' = "loop"
  /\ UNCHANGED <<envVars, callVars, db, conn, connState, failed, end, attemptStart,
                 throws, authCalls, authOk, connectAddr, first, stoppedByFlag,
                 outVars>>

\* conn->isFailed() on a null shared_ptr: BOOST_ASSERT(px != 0) aborts, or the
\* read through the null pointer faults.
NullDerefOutcomes == {"assert_abort", "segfault"}

\* if (conn->isFailed() || ros::WallTime::now() > end) throw DbConnectException();
ThrowCondDeadlineOnly(f, t, e) == t > e

ThrowCond(f, t, e) == f \/ t > e

\* Where the caller goes on once makeDbConnection has ended with result r.
AfterMakeAlwaysDrop(e, r) == IF e \in {"drop1", "drop4"} THEN "drop" ELSE "done"

AfterMake(e, r) ==
  IF e \in {"drop1", "drop4"} /\ r = "returned" THEN "drop" ELSE "done"

PostCheck ==
  /\ pc = "post"
  /\ \E d \in 0 .. MaxLatency : now' = now + d
  /\ IF conn = 0
       THEN result' \in NullDerefOutcomes
       ELSE result' = IF ThrowCond(failed, now', end) THEN "DbConnectException"
                      ELSE "returned"
  /\ handle' = IF result' = "returned" THEN conn ELSE 0
  /\ pc' = AfterMake(entry, result')
  /\ UNCHANGED <<envVars, callVars, db, loopVars, end, drops>>

\* c->dropDatabase(db)
DropCommand ==
  /\ pc = "drop"
  /\ drops' = Append(drops, <<handle, dropName>>)
  /\ pc' = "done"
  /\ UNCHANGED <<envVars, callVars, db, loopVars, now, end, result, handle>>

\* ---- the environment --------------------------------------------------------
\* ros::ok() turns false (shutdown) and stays false.
RosShutdown ==
  /\ running
  /\ pc # "done"
  /\ running' = FALSE
  /\ UNCHANGED <<store, callVars, db, pc, loopVars, now, end, outVars>>

Next ==
  \/ CallMakeDbConnection
  \/ CallDropDatabase1
  \/ CallDropDatabase4
  \/ Resolve
  \/ LoopCheck
  \/ Connect
  \/ Auth
  \/ CheckFailed
  \/ Sleep
  \/ PostCheck
  \/ DropCommand
  \/ RosShutdown

Spec == Init /\ [][Next]_vars

\* ---- the settings resolution alone, over every argument and store -----------
InitResolve ==
  /\ store \in AllStores
  /\ pc = "resolve"
  /\ entry = "make" /\ args \in AllArgs
  /\ InitCall

NextResolve == Resolve

SpecResolve == InitResolve /\ [][NextResolve]_vars

\* ---- properties ------------------------------------------------------------------
Dropping == entry \in {"drop1", "drop4"}

\* C1: when makeDbConnection returns a handle, the handle is the connection object
\* created in the last loop iteration and isFailed() is false for it; with a failed
\* connection object the call raises DbConnectException and returns no handle.
C1_ReturnedHandleNotFailed ==
  /\ result = "returned" =>
       /\ handle = conn /\ conn >= 1
       /\ ~failed
       /\ connState \in {"returned", "threw"}
  /\ result # "returned" => handle = 0
  /\ (result # "none" /\ conn >= 1 /\ failed) => result = "DbConnectException"

\* A handle returned from the second connection object, after a retry.
C1_Witness == result = "returned" /\ conn = 2 /\ handle = 2 /\ ~failed

\* C2 (as claimed): when the call ends and no attempt left a non-failed connection
\* (no object was created, or the last object is failed), it has raised
\* DbConnectException and nothing else.
C2_Claim ==
  (result # "none" /\ (conn = 0 \/ failed)) => result = "DbConnectException"

\* C3: each of host, port, databaseName, user and password resolves to the explicit
\* argument when that is not "" / 0, else to the value configured under its key,
\* else to "localhost", 27017, "", "", "".
C3_Resolution ==
  pc = "loop" =>
    /\ db.host = IF args.host # "" THEN args.host
                 ELSE IF store.warehouse_host # <<>> THEN store.warehouse_host[1]
                 ELSE "localhost"
    /\ db.port = IF args.port # 0 THEN args.port
                 ELSE IF store.warehouse_port # <<>> THEN store.warehouse_port[1]
                 ELSE 27017
    /\ db.name = IF args.name # "" THEN args.name
                 ELSE IF store.warehouse_database_name # <<>>
                   THEN store.warehouse_database_name[1]
                 ELSE ""
    /\ db.user = IF args.user # "" THEN args.user
                 ELSE IF store.warehouse_user # <<>> THEN store.warehouse_user[1]
                 ELSE ""
    /\ db.pwd = IF args.pwd # "" THEN args.pwd
                ELSE IF store.warehouse_pwd # <<>> THEN store.warehouse_pwd[1]
                ELSE ""

\* Settings resolved three different ways in one call: the port from the argument
\* although one is configured, the host from the store, the user from the default.
C3_Witness ==
  /\ pc = "loop"
  /\ args.port = 5000 /\ store.warehouse_port = <<6000>> /\ db.port = 5000
  /\ args.host = "" /\ db.host = "cfghost"
  /\ args.user = "" /\ store.warehouse_user = <<>> /\ db.user = ""
  /\ args.pwd = "p" /\ db.pwd = "p"

\* C4 (as claimed): authenticate resolves to true when the caller passes true, else
\* to the configured warehouse_authenticate, else to false; with authenticate=false
\* and nothing configured, auth is never called.
C4_Claim ==
  pc \notin {"idle", "resolve"} =>
    /\ db.authenticate =
         IF args.authenticate THEN TRUE
         ELSE IF store.warehouse_authenticate # <<>>
           THEN store.warehouse_authenticate[1]
         ELSE FALSE
    /\ (~args.authenticate /\ store.warehouse_authenticate = <<>>) =>
         (authCalls = 0 /\ pc # "auth")

\* C5 (as claimed): when the first connect call returns and leaves the connection
\* non-failed and authenticate resolved to false, the call returns a handle after
\* exactly one attempt and no sleep.
C5_Claim ==
  (result # "none" /\ first = "ok" /\ ~db.authenticate) =>
    (result = "returned" /\ conn = 1 /\ sleeps = 0)

\* C5 (amended): in that case there is exactly one attempt and no sleep, and the
\* call returns the handle when the clock read after the loop is not past the
\* deadline and raises DbConnectException when it is.
C5_OneAttemptThenDeadline ==
  (first = "ok" /\ ~db.authenticate) =>
    /\ conn = 1 /\ sleeps = 0 /\ throws = 0
    /\ result # "none" =>
         result = (IF now > end THEN "DbConnectException" ELSE "returned")

\* A handle returned from the first attempt, which took time, without authentication.
C5_Witness ==
  /\ first = "ok" /\ ~db.authenticate
  /\ result = "returned" /\ handle = 1 /\ now > 0 /\ sleeps = 0

\* C6 (as claimed): when every connect attempt threw, no attempt started at or after
\* the deadline, the sleeps number at most the timeout, and the call ends by raising
\* DbConnectException no later than the deadline plus one attempt, one sleep and
\* the step to the post-loop check.
C6_Claim ==
  (throws = conn) =>
    /\ conn >= 1 => attemptStart < end
    /\ sleeps <= args.timeout
    /\ result # "none" =>
         /\ result = "DbConnectException"
         /\ now <= end + MaxDur + SleepUnit + MaxLatency

\* C7 (as claimed): when the loop condition was evaluated with ros::ok() false and
\* no attempt had left a non-failed connection, the call ends by raising
\* DbConnectException, also when that was before the first attempt.
C7_Claim ==
  (stoppedByFlag /\ result # "none" /\ (conn = 0 \/ failed)) =>
    result = "DbConnectException"

\* C8: auth is called only when authenticate resolved to true, at most once per
\* connection object and only after connect returned on that object; the auth call
\* never raises, and whatever it returned, a non-failed connection ends the loop at
\* once and is returned unless the deadline has passed.
C8_AuthStep ==
  /\ authCalls' > 0 =>
       (db'.authenticate /\ authCalls' = 1 /\ connState' = "returned")
  /\ (pc = "auth" /\ pc' # pc) =>
       (pc' = "isfailed" /\ result' = "none" /\ authOk' # "none" /\ conn' = conn)
  /\ (pc = "isfailed" /\ pc' # pc /\ authCalls = 1 /\ ~failed) =>
       (pc' = "post" /\ conn' = conn /\ sleeps' = sleeps)
  /\ (pc = "post" /\ pc' # pc /\ authCalls = 1 /\ ~failed /\ now' <= end) =>
       (result' = "returned" /\ handle' = conn)

\* C8: every step of every behaviour is a C8_AuthStep: auth only when resolved
\* true, once, after connect returned; its result changes nothing in the outcome.
C8_AuthFailureOnlyLogged == [][C8_AuthStep]_vars

\* A handle returned although auth reported failure.
C8_Witness ==
  result = "returned" /\ authOk = "fail" /\ authCalls = 1 /\ handle = conn

\* C9: dropDatabase issues the drop command exactly once, for the given name, on
\* the handle makeDbConnection returned and after it returned; when makeDbConnection
\* raises, no drop command is issued and the caller gets the exception; the
\* one-argument form calls the four-argument form with "", 0 and 60.
C9_DropDatabase ==
  /\ Len(drops) <= 1
  /\ drops # <<>> =>
       /\ Dropping /\ result = "returned" /\ pc = "done"
       /\ drops[1] = <<handle, dropName>> /\ handle = conn /\ handle >= 1
  /\ (pc = "done" /\ Dropping /\ result = "returned") => Len(drops) = 1
  /\ pc = "drop" => (Dropping /\ result = "returned")
  /\ (Dropping /\ result \notin {"none", "returned"}) => (drops = <<>> /\ pc = "done")
  /\ ~Dropping => drops = <<>>
  /\ entry = "drop1" =>
       (args.host = "" /\ args.port = 0 /\ args.timeout = 60)

\* The one-argument form has issued its drop command.
C9_Witness ==
  /\ entry = "drop1" /\ pc = "done"
  /\ drops = <<<<handle, "db">>>> /\ handle >= 1

\* C10: a ConnectException is caught in the loop and followed by exactly one sleep
\* of one unit and then the loop condition, which creates a fresh object when it
\* holds; sleeps follow thrown attempts only, one each; an attempt that returned
\* and left the connection failed goes back to the loop condition without sleeping.
C10_CatchStep ==
  /\ (connState' = "threw" /\ connState # "threw") =>
       (pc' = "sleep" /\ result' = "none" /\ throws' = throws + 1)
  /\ (pc = "sleep" /\ pc' # pc) =>
       (pc' = "loop" /\ now' = now + 1 /\ sleeps' = sleeps + 1)
  /\ sleeps' # sleeps => (pc = "sleep" /\ connState = "threw")
  /\ sleeps' = IF pc' = "sleep" THEN throws' - 1 ELSE throws'
  /\ (pc = "isfailed" /\ pc' # pc /\ failed) =>
       (pc' = "loop" /\ sleeps' = sleeps /\ now' = now)
  /\ (pc = "loop" /\ pc' = "connect") => (conn' = conn + 1 /\ connState' = "new")
  /\ throws' > 0 => result' \in {"none", "returned", "DbConnectException"}

\* C10: every step of every behaviour is a C10_CatchStep: each ConnectException is
\* caught and followed by one sleep of one unit; no other attempt is slept on.
C10_ConnectExceptionCaught == [][C10_CatchStep]_vars

\* The second connection object, created after one thrown attempt and its sleep.
C10_Witness ==
  /\ conn = 2 /\ connState = "new" /\ pc = "connect"
  /\ throws = 1 /\ sleeps = 1 /\ now >= 1

====
